---------------------------- MODULE Spec2Model ----------------------------
(***************************************************************************)
(* Human-handoff escalation subsystem of the companion repository:         *)
(*   - HumanHandoffAPI  (production-architecture/api/human-handoff-api.js) *)
(*     the handoff request registry: createHandoff, getHandoff,            *)
(*     respondToHandoff;                                                   *)
(*   - FlowBrain (production-architecture/core/browser-server.js, the      *)
(*     flow-brain part) the escalation engine: orchestrateExecution,       *)
(*     decideOnFailure, initiateHandoff, resumeFromHandoff;                *)
(*   - ProductionAgent (production-architecture/agents/production-agent.js)*)
(*     the handoff callback: classifyHandoff, waitForHumanResponse,        *)
(*     fallbackLocalHandoff;                                               *)
(*   - BrowserStreamServer (src/handoff/browser-stream-server.ts, and its  *)
(*     standalone variant src/handoff/standalone-stream-server.js) the     *)
(*     handoff sessions and their streaming channel: sessions, operator    *)
(*     connections, the frame interval, the forwarding of operator input,  *)
(*     completeHandoff.                                                    *)
(*                                                                         *)
(* Time is counted in units of five minutes (300000 ms), the greatest      *)
(* common divisor of every duration the modelled code uses.  Strings the   *)
(* code inspects with toLowerCase()/includes() are tuples of characters.   *)
(***************************************************************************)
EXTENDS Integers, Sequences, FiniteSets, TLC

VARIABLES
  now,               \* Date.now(), in units of five minutes
  handoffs,          \* HumanHandoffAPI.handoffs : id -> handoffData
  completedHandoffs, \* HumanHandoffAPI.completedHandoffs (ids; same objects)
  resumeTriggered,   \* ids for which triggerAutomationResume has been called
  res,               \* the last HTTP response the API sent
  failurePatterns,   \* FlowBrain.context.failurePatterns
  task,              \* FlowBrain.context.task (its description)
  attemptHistory,    \* FlowBrain.context.attemptHistory
  modelHistory,      \* FlowBrain.context.modelHistory
  successPatterns,   \* FlowBrain.context.successPatterns
  confidence,        \* the confidence of the result of the run's last
                     \* attempt, in tenths
  runs,              \* number of tasks (executeFlow calls, approval
                     \* requests) the agent has started
  approval,          \* what requestHumanApproval returned for the task
  handoffCallback,   \* FlowBrain.handoffCallback: "agent" (the
                     \* ProductionAgent's), "custom" (another onHandoff
                     \* option) or "null"
  pc,                \* where the current executeFlow call stands
  currentAttempt,    \* orchestrateExecution's currentAttempt
  decisions,         \* the decisions decideOnFailure returned in this run
  classification,    \* ProductionAgent.classifyHandoff's result for the run
  handoffId,         \* handoffResult.handoff_id of the run's handoff
  startTime,         \* waitForHumanResponse's startTime
  lastPolled,        \* handoff.status as the last poll of the wait read it
  humanChoice,       \* what the handoff callback returned to the brain
  flowResult,        \* what executeFlow returned
  serverKind,        \* the BrowserStreamServer that runs: "stream" is
                     \* browser-stream-server.ts, "standalone" is
                     \* standalone-stream-server.js
  clock,             \* the time of the stream server's timers, in units of
                     \* five seconds
  sessions,          \* the session objects, by id; inTable tells whether
                     \* the id is still a key of BrowserStreamServer.sessions
  sockets,           \* the WebSocket connections the server has accepted
  liveIntervals,     \* the setInterval handles not cleared yet (a handle is
                     \* the number of the socket whose connection made it)
  captures,          \* the screenshots in flight (awaited, not yet sent);
                     \* those one interval has in flight are numbered 1..k
  received,          \* the number of messages received from operators
  pageCalls,         \* the calls issued on session.page, in issue order
  cleanupTimers,     \* the pending setTimeout callbacks of completeHandoff
  tasks,             \* the number of executeTask calls on the UnifiedCUAEngine
  currentHandoffSession, \* UnifiedCUAEngine.currentHandoffSession
  isInitialized,     \* UnifiedCUAEngine.isInitialized
  launches,          \* the number of chromium.launch calls of the engine
  inits,             \* the init calls in flight: for each, whether an
                     \* executeTask call awaits it
  humanBehavior,     \* the number of addHumanBehavior calls (each leaves a
                     \* mouse interval and a scroll interval running)
  engineInputs,      \* the number of input calls the engine itself has
                     \* issued on its page
  agentStatus,       \* the agent's status as updateAgentStatus stored it
  outcome            \* how the last executeTask call ended

registryVars == <<now, handoffs, completedHandoffs, resumeTriggered, res>>
contextVars ==
  <<task, attemptHistory, modelHistory, successPatterns, confidence>>
brainVars == <<failurePatterns, runs, handoffCallback, approval, pc,
               currentAttempt, contextVars,
               decisions, classification, handoffId, startTime, lastPolled,
               humanChoice, flowResult>>
streamVars == <<serverKind, clock, sessions, sockets, liveIntervals,
                captures, received, pageCalls, cleanupTimers>>
vars == <<now, handoffs, completedHandoffs, resumeTriggered, res,
          failurePatterns, runs, handoffCallback, approval, pc,
          currentAttempt,
          task, attemptHistory, modelHistory, successPatterns, confidence,
          decisions, classification, handoffId, startTime, lastPolled,
          humanChoice, flowResult,
          serverKind, clock, sessions, sockets, liveIntervals,
          captures, received, pageCalls, cleanupTimers,
          tasks, currentHandoffSession, isInitialized, launches, inits,
          humanBehavior, engineInputs, agentStatus, outcome>>
engineVars == <<tasks, currentHandoffSession, isInitialized, launches, inits,
                humanBehavior, engineInputs, agentStatus, outcome>>

---------------------------------------------------------------------------
(* Bounds of the model. *)
MaxTime == 3
MaxHandoffs == 1
MaxRuns == 1
MaxSessions == 1
MaxSockets == 2
MaxEvents == 2
MaxFrames == 1
MaxClock == 1
MaxOutstanding == 2
MaxTasks == 2
MaxLaunches == 2
MaxEngineInputs == 1

(* Durations, in units of five minutes. *)
TtlUrgent == 1
TtlDefault == 6
TimeoutCaptcha == 1
TimeoutMultiple == 3
TimeoutSelector == 6
TimeoutGeneral == 4
TimeoutApproval == 2

(* The delay of completeHandoff's cleanup, in units of five seconds. *)
GraceDelay == 1
maxRetries == 3

(* A nullable field is the empty tuple (null) or a one-element tuple. *)
Null == <<>>
Some(x) == <<x>>
Undefined == "undefined"

---------------------------------------------------------------------------
(* String.prototype.toLowerCase and String.prototype.includes. *)
UpperCase == <<"A","B","C","D","E","F","G","H","I","J","K","L","M",
               "N","O","P","Q","R","S","T","U","V","W","X","Y","Z">>
LowerCase == <<"a","b","c","d","e","f","g","h","i","j","k","l","m",
               "n","o","p","q","r","s","t","u","v","w","x","y","z">>

toLowerChar(c) ==
  IF \E i \in 1..26 : UpperCase[i] = c
  THEN LowerCase[CHOOSE i \in 1..26 : UpperCase[i] = c]
  ELSE c

toLowerCase(s) == [i \in 1..Len(s) |-> toLowerChar(s[i])]

includes(s, sub) ==
  \E k \in 0..(Len(s) - Len(sub)) :
    \A j \in 1..Len(sub) : s[k + j] = sub[j]

(* Array.prototype.includes on a list. *)
listIncludes(list, x) == \E i \in 1..Len(list) : list[i] = x

(* Number -> decimal digits, for template strings (numbers below 10). *)
Digits == <<"0","1","2","3","4","5","6","7","8","9">>
numberToString(n) == <<Digits[n + 1]>>

---------------------------------------------------------------------------
(* HumanHandoffAPI: the handoff request registry. *)

Urgencies == {"normal", "high", "urgent"}
DefaultOptions == <<"continue", "modify_approach", "abort">>
(* What a client may post as options: nothing, or a list of its own. *)
ClientOptions == {<<>>, <<"approve", "deny">>}
(* Actions an operator may post to /respond. *)
ActionInputs == {"continue", "abort_task", "approve", "modify_task"}
(* Handoff ids a request may name: those issued, and one never issued. *)
Ids == 1..(MaxHandoffs + 1)

(* What a handler passes to res.status(code).json(body): the status code, *)
(* body.error, body.available_options and (listings) body.handoffs.       *)
Response(code, error, opts) ==
  [code |-> code, error |-> error, available_options |-> opts,
   handoffs |-> <<>>]
NoResponse == Response(0, "", <<>>)

(* The id createHandoff issues next (Date.now() plus a random suffix: fresh). *)
nextHandoffId == Cardinality(DOMAIN handoffs) + 1

ttl(urgency) == IF urgency = "urgent" THEN TtlUrgent ELSE TtlDefault

(* POST /api/handoff; options = <<>> stands for a body without options.   *)
(* The handoff is stored before options.join() is evaluated, so a body    *)
(* without options stores the handoff and then throws: no response.       *)
createHandoff(options, urgency) ==
  LET id == nextHandoffId
      handoffData ==
        [options |-> IF options = <<>> THEN DefaultOptions ELSE options,
         urgency |-> urgency,
         status |-> "waiting",
         created_at |-> now,
         expires_at |-> now + ttl(urgency),
         human_response |-> Null,
         resolution_time |-> Null]
  IN /\ id <= MaxHandoffs
     /\ handoffs' = [i \in DOMAIN handoffs \cup {id} |->
                       IF i = id THEN handoffData ELSE handoffs[i]]
     /\ res' = IF options = <<>>
               THEN Response(0, "TypeError", <<>>)
               ELSE Response(201, "", <<>>)
     /\ UNCHANGED <<now, completedHandoffs, resumeTriggered>>

(* GET /api/handoff/:id *)
getHandoff(id) ==
  IF id \notin DOMAIN handoffs
  THEN /\ res' = Response(404, "Handoff not found", <<>>)
       /\ UNCHANGED <<now, handoffs, completedHandoffs, resumeTriggered>>
  ELSE /\ handoffs' =
            IF now > handoffs[id].expires_at
            THEN [handoffs EXCEPT ![id].status = "expired"]
            ELSE handoffs
       /\ res' = Response(200, "", <<>>)
       /\ UNCHANGED <<now, completedHandoffs, resumeTriggered>>

(* respondToHandoff's two checks of the stored handoff. *)
alreadyResolved_Never(handoff) == FALSE
alreadyResolved(handoff) == handoff.status # "waiting"

actionNotAllowed_Never(handoff, action) == FALSE
actionNotAllowed(handoff, action) == ~listIncludes(handoff.options, action)

(* POST /api/handoff/:id/respond *)
respondToHandoff(id, action) ==
  IF id \notin DOMAIN handoffs
  THEN /\ res' = Response(404, "Handoff not found", <<>>)
       /\ UNCHANGED <<now, handoffs, completedHandoffs, resumeTriggered>>
  ELSE IF alreadyResolved(handoffs[id])
  THEN /\ res' = Response(400,
                          "Handoff already " \o handoffs[id].status, <<>>)
       /\ UNCHANGED <<now, handoffs, completedHandoffs, resumeTriggered>>
  ELSE IF actionNotAllowed(handoffs[id], action)
  THEN /\ res' = Response(400, "Invalid action",
                          handoffs[id].options)
       /\ UNCHANGED <<now, handoffs, completedHandoffs, resumeTriggered>>
  ELSE /\ handoffs' =
            [handoffs EXCEPT
               ![id].human_response =
                  Some([action |-> action, responded_at |-> now]),
               ![id].status = "responded",
               ![id].resolution_time = Some(now - handoffs[id].created_at)]
       /\ completedHandoffs' = completedHandoffs \cup {id}
       /\ res' = Response(200, "", <<>>)
       /\ resumeTriggered' =
            IF action = "continue" \/ action = "modify_approach"
            THEN resumeTriggered \cup {id}
            ELSE resumeTriggered
       /\ UNCHANGED now

(* Requests of clients other than the agent (operators, the web UI). *)
(* The ids of S in ascending order. *)
RECURSIVE ascending(_)
ascending(S) ==
  IF S = {} THEN <<>>
  ELSE LET least == CHOOSE i \in S : \A j \in S : i <= j
       IN <<least>> \o ascending(S \ {least})

(* What a query may filter a listing by: nothing, or a value. *)
StatusFilters == {"", "waiting", "responded", "expired"}
UrgencyFilters == {"", "urgent"}

(* GET /api/handoffs: the stored handoffs as they are, filtered by status  *)
(* and urgency, the urgent ones first, each group in creation order (ids   *)
(* are issued in creation order and the sort is stable).                   *)
listHandoffs(status, urgency) ==
  LET selected ==
        {id \in DOMAIN handoffs :
           /\ status # "" => handoffs[id].status = status
           /\ urgency # "" => handoffs[id].urgency = urgency}
      sorted ==
        ascending({id \in selected : handoffs[id].urgency = "urgent"})
          \o ascending({id \in selected : handoffs[id].urgency # "urgent"})
  IN /\ res' = [Response(200, "", <<>>) EXCEPT !.handoffs =
                  [k \in DOMAIN sorted |->
                     [id |-> sorted[k],
                      status |-> handoffs[sorted[k]].status,
                      urgency |-> handoffs[sorted[k]].urgency]]]
     /\ UNCHANGED <<now, handoffs, completedHandoffs, resumeTriggered>>

(* GET /api/handoff/:id/context: the stored context, without the status. *)
getHandoffContext(id) ==
  /\ res' = IF id \notin DOMAIN handoffs
            THEN Response(404, "Handoff not found", <<>>)
            ELSE Response(200, "", <<>>)
  /\ UNCHANGED <<now, handoffs, completedHandoffs, resumeTriggered>>

ClientCreate ==
  \E options \in ClientOptions, urgency \in Urgencies :
    createHandoff(options, urgency) /\ UNCHANGED brainVars

ClientGet ==
  \E id \in Ids : getHandoff(id) /\ UNCHANGED brainVars

ClientRespond ==
  \E id \in Ids, action \in ActionInputs :
    respondToHandoff(id, action) /\ UNCHANGED brainVars

ClientList ==
  \E status \in StatusFilters, urgency \in UrgencyFilters :
    listHandoffs(status, urgency) /\ UNCHANGED brainVars

ClientContext ==
  \E id \in Ids : getHandoffContext(id) /\ UNCHANGED brainVars

(* The clock advances. *)
Tick ==
  /\ now < MaxTime
  /\ now' = now + 1
  /\ UNCHANGED <<handoffs, completedHandoffs, resumeTriggered, res>>
  /\ UNCHANGED brainVars

---------------------------------------------------------------------------
(* String literals of the code, as tuples of characters. *)
S_captcha ==
  <<"c","a","p","t","c","h","a">>
S_recaptcha ==
  <<"r","e","c","a","p","t","c","h","a">>
S_timeout ==
  <<"t","i","m","e","o","u","t">>
S_not_found ==
  <<"n","o","t"," ","f","o","u","n","d">>
S_selector ==
  <<"s","e","l","e","c","t","o","r">>
S_network ==
  <<"n","e","t","w","o","r","k">>
S_connection ==
  <<"c","o","n","n","e","c","t","i","o","n">>
S_permission ==
  <<"p","e","r","m","i","s","s","i","o","n">>
S_access_denied ==
  <<"a","c","c","e","s","s"," ","d","e","n","i","e","d">>
S_multiple_failures ==
  <<"m","u","l","t","i","p","l","e"," ","f","a","i","l","u","r","e","s">>
S_selector_not_found ==
  <<"s","e","l","e","c","t","o","r"," ","n","o","t"," ","f","o","u","n",
    "d">>
S_UnknownError ==
  <<"U","n","k","n","o","w","n"," ","e","r","r","o","r">>
ReasonCaptcha ==
  <<"C","A","P","T","C","H","A"," ","d","e","t","e","c","t","e","d"," ",
    "-"," ","h","u","m","a","n"," ","v","e","r","i","f","i","c","a","t",
    "i","o","n"," ","r","e","q","u","i","r","e","d">>
ReasonSelector ==
  <<"S","e","l","e","c","t","o","r"," ","n","o","t"," ","f","o","u","n",
    "d"," ","-"," ","t","r","y","i","n","g"," ","a","l","t","e","r","n",
    "a","t","i","v","e"," ","a","p","p","r","o","a","c","h">>
ReasonTimeout ==
  <<"T","i","m","e","o","u","t"," ","-"," ","w","i","l","l"," ","r","e",
    "t","r","y"," ","w","i","t","h"," ","i","n","c","r","e","a","s","e",
    "d"," ","w","a","i","t"," ","t","i","m","e">>
ReasonMultiplePrefix ==
  <<"M","u","l","t","i","p","l","e"," ","f","a","i","l","u","r","e","s",
    " ","d","e","t","e","c","t","e","d"," ","(">>
ReasonMultipleSuffix ==
  <<" ","a","t","t","e","m","p","t","s",")">>
ReasonRetryable ==
  <<"R","e","t","r","y","a","b","l","e"," ","e","r","r","o","r"," ","-",
    " ","c","o","n","t","i","n","u","i","n","g"," ","w","i","t","h"," ",
    "n","e","x","t"," ","s","t","r","a","t","e","g","y">>
MsgExhausted ==
  <<"F","l","o","w"," ","B","r","a","i","n"," ","e","x","h","a","u","s",
    "t","e","d"," ","a","l","l"," ","r","e","t","r","y"," ","s","t","r",
    "a","t","e","g","i","e","s">>
E_Timeout ==
  <<"T","i","m","e","o","u","t"," ","3","0","0","0","0","m","s"," ","e",
    "x","c","e","e","d","e","d">>
E_Recaptcha ==
  <<"r","e","C","A","P","T","C","H","A"," ","c","h","a","l","l","e","n",
    "g","e">>
E_Selector ==
  <<"S","e","l","e","c","t","o","r"," ","n","o","t"," ","f","o","u","n",
    "d">>
E_CaptchaTimeout ==
  <<"C","A","P","T","C","H","A"," ","t","i","m","e","o","u","t">>
E_Network ==
  <<"N","e","t","w","o","r","k"," ","u","n","r","e","a","c","h","a","b",
    "l","e">>
E_Detached ==
  <<"E","l","e","m","e","n","t"," ","d","e","t","a","c","h","e","d">>

(* Error texts a failed attempt may carry (result.error); the empty text   *)
(* stands for a failure without an error, which is falsy like ''.          *)
E_Operator ==
  <<"O", "p", "e", "r", "a", "t", "o", "r", " ", "c", "o", "n", "s", "o", "l", "e", " ", "c", "l", "o", "s", "e", "d">>

(* Task descriptions. *)
D_Search ==
  <<"S", "e", "a", "r", "c", "h", " ", "G", "o", "o", "g", "l", "e", " ", "f", "o", "r", " ", "h", "a", "s", "a", "n", " ", "m",
    "o", "h", "a", "m", "m", "e", "d">>
D_Code ==
  <<"R", "e", "v", "i", "e", "w", " ", "t", "h", "e", " ", "c", "o", "d", "e">>
D_General ==
  <<"O", "p", "e", "n", " ", "t", "h", "e", " ", "d", "a", "s", "h", "b", "o", "a", "r", "d">>
TaskDescriptions == {D_Search, D_Code, D_General}

S_search == <<"s", "e", "a", "r", "c", "h">>
S_code == <<"c", "o", "d", "e">>
S_login == <<"l", "o", "g", "i", "n">>
S_sign_in == <<"s", "i", "g", "n", " ", "i", "n">>
S_form == <<"f", "o", "r", "m">>
S_submit == <<"s", "u", "b", "m", "i", "t">>
S_click == <<"c", "l", "i", "c", "k">>
S_button == <<"b", "u", "t", "t", "o", "n">>

ErrorTexts ==
  {E_Timeout, E_Recaptcha, E_Selector, E_CaptchaTimeout, E_Network,
   E_Detached, <<>>}

---------------------------------------------------------------------------
(* FlowBrain: the escalation engine. *)

classifyError(errorMessage) ==
  LET error == toLowerCase(errorMessage)
  IN IF includes(error, S_captcha) \/ includes(error, S_recaptcha)
       THEN "captcha_detected"
     ELSE IF includes(error, S_timeout) THEN "timeout"
     ELSE IF includes(error, S_not_found) \/ includes(error, S_selector)
       THEN "selector_not_found"
     ELSE IF includes(error, S_network) \/ includes(error, S_connection)
       THEN "network_error"
     ELSE IF includes(error, S_permission) \/ includes(error, S_access_denied)
       THEN "permission_error"
     ELSE "unknown_error"

CaptchaOptions == <<"solve_captcha", "try_different_approach", "abort_task">>
MultipleOptions == <<"manual_intervention", "change_strategy", "abort_task">>

Decision(action, errorPattern, attemptNumber, reason, options) ==
  [action |-> action, errorPattern |-> errorPattern,
   attemptNumber |-> attemptNumber, reason |-> reason, options |-> options]

(* decideOnFailure's rules for retrying a missing selector and a timeout. *)
retrySelector_OffByOne(errorPattern, attemptNumber) ==
  errorPattern = "selector_not_found" /\ attemptNumber <= 2
retrySelector(errorPattern, attemptNumber) ==
  errorPattern = "selector_not_found" /\ attemptNumber < 2

retryTimeout_FirstOnly(errorPattern, attemptNumber, seenBefore) ==
  errorPattern = "timeout" /\ attemptNumber < 2
retryTimeout(errorPattern, attemptNumber, seenBefore) ==
  errorPattern = "timeout" /\ ~seenBefore

(* decideOnFailure(result, attemptNumber, strategy), with result.error and *)
(* this.context.failurePatterns as parameters.                             *)
decideOnFailure(resultError, attemptNumber, patterns) ==
  LET error == IF resultError = <<>> THEN S_UnknownError ELSE resultError
      errorPattern == classifyError(error)
      seenBefore == listIncludes(patterns, errorPattern)
  IN IF errorPattern = "captcha_detected"
       THEN Decision("handoff", errorPattern, attemptNumber,
                     ReasonCaptcha, CaptchaOptions)
     ELSE IF retrySelector(errorPattern, attemptNumber)
       THEN Decision("retry", errorPattern, attemptNumber,
                     ReasonSelector, <<>>)
     ELSE IF retryTimeout(errorPattern, attemptNumber, seenBefore)
       THEN Decision("retry", errorPattern, attemptNumber,
                     ReasonTimeout, <<>>)
     ELSE IF attemptNumber >= 2
       THEN Decision("handoff", errorPattern, attemptNumber,
                     ReasonMultiplePrefix \o numberToString(attemptNumber + 1)
                       \o ReasonMultipleSuffix,
                     MultipleOptions)
     ELSE Decision("retry", errorPattern, attemptNumber,
                   ReasonRetryable, <<>>)

(* learnFromFailure(error): the new value of context.failurePatterns. *)
learnFromFailure(patterns, errorMessage) ==
  LET pattern == classifyError(errorMessage)
  IN IF ~listIncludes(patterns, pattern)
     THEN Append(patterns, pattern)
     ELSE patterns

Result(success, resumed, aborted, paused, human_action) ==
  [success |-> success, resumed |-> resumed, aborted_by_human |-> aborted,
   paused_for_human |-> paused, human_action |-> human_action]

(* resumeFromHandoff(humanChoice): the switch on humanChoice.action. *)
resumeFromHandoff(choice) ==
  IF choice.action = "continue"
    THEN Result(TRUE, TRUE, FALSE, FALSE, "continue")
  ELSE IF choice.action = "modify_approach"
    THEN Result(TRUE, TRUE, FALSE, FALSE, "modified")
  ELSE IF choice.action = "abort"
    THEN Result(FALSE, FALSE, TRUE, FALSE, Undefined)
  ELSE Result(TRUE, TRUE, FALSE, FALSE, choice.action)

(* executeFlow's two return values. *)
FlowSuccess(result) ==
  [success |-> TRUE, result |-> Some(result), error |-> <<>>]
FlowFailure(message) ==
  [success |-> FALSE, result |-> Null, error |-> message]

---------------------------------------------------------------------------
(* ProductionAgent: the handoff callback. *)

Classification(type, urgency, timeoutMs) ==
  [type |-> type, urgency |-> urgency, timeoutMs |-> timeoutMs]

classifyHandoff_CaseSensitive(decisionReason) ==
  LET reason == decisionReason
  IN IF includes(reason, S_captcha)
       THEN Classification("captcha_intervention", "urgent", TimeoutCaptcha)
     ELSE IF includes(reason, S_multiple_failures)
       THEN Classification("strategy_consultation", "high", TimeoutMultiple)
     ELSE IF includes(reason, S_selector_not_found)
       THEN Classification("page_analysis_needed", "normal", TimeoutSelector)
     ELSE Classification("general_assistance", "normal", TimeoutGeneral)

classifyHandoff(decisionReason) ==
  LET reason == toLowerCase(decisionReason)
  IN IF includes(reason, S_captcha)
       THEN Classification("captcha_intervention", "urgent", TimeoutCaptcha)
     ELSE IF includes(reason, S_multiple_failures)
       THEN Classification("strategy_consultation", "high", TimeoutMultiple)
     ELSE IF includes(reason, S_selector_not_found)
       THEN Classification("page_analysis_needed", "normal", TimeoutSelector)
     ELSE Classification("general_assistance", "normal", TimeoutGeneral)

(* What handleIntelligentHandoff returns to FlowBrain.initiateHandoff: an  *)
(* object with human_action and no action property.                        *)
HumanChoice(human_action, fallback) ==
  [success |-> TRUE, action |-> Undefined, human_action |-> human_action,
   fallback |-> fallback]

fallbackLocalHandoff == HumanChoice("continue", TRUE)

---------------------------------------------------------------------------
(* FlowBrain: strategies, models and what the brain learns. *)

models ==
  [coding |-> <<"qwen/qwen3-coder:free",
                "deepseek/deepseek-chat-v3-0324:free">>,
   general |-> <<"mistralai/mistral-small-3.2-24b-instruct:free",
                 "openai/gpt-oss-20b:free">>,
   vision |-> <<"moonshotai/kimi-vl-a3b-thinking:free">>,
   reasoning |-> <<"deepseek/deepseek-r1-0528:free",
                   "tngtech/deepseek-r1t2-chimera:free">>]

Strategy(name, model) == [name |-> name, model |-> model]

(* getNextUntriedModel(), with context.modelHistory as parameter: the      *)
(* model it returns, and the modelHistory it leaves.                       *)
allModels == models.general \o models.coding \o models.reasoning

untried(tried) ==
  {i \in DOMAIN allModels : ~listIncludes(tried, allModels[i])}

getNextUntriedModel(tried) ==
  IF untried(tried) # {}
  THEN allModels[CHOOSE i \in untried(tried) :
                   \A j \in untried(tried) : i <= j]
  ELSE models.general[1]

modelHistoryAfter(tried) ==
  IF untried(tried) # {}
  THEN Append(tried, getNextUntriedModel(tried))
  ELSE tried

(* chooseStrategy(attemptNumber, lastError), with the task's description   *)
(* and context.modelHistory as parameters.                                 *)
chooseStrategy(attemptNumber, description, tried) ==
  IF attemptNumber = 0
    THEN IF includes(toLowerCase(description), S_search)
           THEN Strategy("search_optimized", models.general[1])
         ELSE IF includes(toLowerCase(description), S_code)
           THEN Strategy("code_optimized", models.coding[1])
         ELSE Strategy("general_purpose", models.general[1])
  ELSE IF attemptNumber = 1
    THEN Strategy("model_switch", getNextUntriedModel(tried))
  ELSE Strategy("reasoning_with_context", models.reasoning[1])

(* context.modelHistory after chooseStrategy(attemptNumber, lastError). *)
modelHistoryChosen(attemptNumber, tried) ==
  IF attemptNumber = 1 THEN modelHistoryAfter(tried) ELSE tried

(* The record executeWithStrategy pushes to context.attemptHistory.  The   *)
(* timestamp is kept as the number of the run the push falls in.           *)
AttemptRecord(strategy, timestamp) ==
  [strategy |-> strategy.name, model |-> strategy.model,
   timestamp |-> timestamp]

classifyTaskType(description) ==
  LET desc == toLowerCase(description)
  IN IF includes(desc, S_search) THEN "search"
     ELSE IF includes(desc, S_login) \/ includes(desc, S_sign_in)
       THEN "authentication"
     ELSE IF includes(desc, S_form) \/ includes(desc, S_submit)
       THEN "form_interaction"
     ELSE IF includes(desc, S_click) \/ includes(desc, S_button)
       THEN "navigation"
     ELSE "general"

(* learnFromSuccess(result) for a result that has a strategy: the new      *)
(* value of context.successPatterns.                                       *)
learnFromSuccess(patterns, strategy, model, description) ==
  Append(patterns, [strategy |-> strategy, model |-> model,
                    task_type |-> classifyTaskType(description)])

(* a.success as a condition: false for an object without that property. *)
succeeded(a) == "success" \in DOMAIN a /\ a.success

(* calculateConfidence(result, strategy) in tenths, with result.success,   *)
(* context.successPatterns and context.attemptHistory as parameters.       *)
calculateConfidence(success, strategy, patterns, history) ==
  LET base == 5
      boosted == IF success THEN base + 3 ELSE base
      successfulStrategies == [i \in DOMAIN patterns |-> patterns[i].strategy]
      known == IF listIncludes(successfulStrategies, strategy.name)
               THEN boosted + 2 ELSE boosted
      failed == SelectSeq(history, LAMBDA a : ~succeeded(a))
      failedModels == [i \in DOMAIN failed |-> failed[i].model]
      reduced == IF listIncludes(failedModels, strategy.model)
                 THEN known - 1 ELSE known
      atMost == IF reduced < 10 THEN reduced ELSE 10
  IN IF atMost > 0 THEN atMost ELSE 0

(* What a custom handoff callback returns: an object with an action and a  *)
(* strategy, and none of the agent's properties.                           *)
CustomActions == {"continue", "modify_approach", "abort"}
CustomChoice(action) ==
  [success |-> FALSE, action |-> action, human_action |-> Undefined,
   fallback |-> FALSE]

---------------------------------------------------------------------------
(* One executeFlow call of the brain, step by step. *)

Last(seq) == seq[Len(seq)]

(* executeFlow(task, agent) is called: orchestrateExecution starts with    *)
(* attempt 0.                                                              *)
executeFlow(description) ==
  /\ pc \in {"idle", "done"}
  /\ runs < MaxRuns
  /\ runs' = runs + 1
  /\ pc' = "attempt"
  /\ currentAttempt' = 0
  /\ decisions' = <<>>
  /\ classification' = Null
  /\ handoffId' = Null
  /\ startTime' = Null
  /\ lastPolled' = Null
  /\ humanChoice' = Null
  /\ flowResult' = Null
  /\ approval' = Null
  /\ task' = Some(description)
  /\ confidence' = Null
  /\ UNCHANGED <<failurePatterns, handoffCallback, attemptHistory,
                 modelHistory, successPatterns>>
  /\ UNCHANGED registryVars

(* The task the ProductionAgent runs. *)
agentRunsTask == executeFlow(D_General)

(* A task of any type is run on the brain. *)
brainRunsTask == \E description \in TaskDescriptions : executeFlow(description)

(* An attempt: chooseStrategy and executeWithStrategy, which records the   *)
(* attempt and gives the result its confidence.                            *)
attempt(success) ==
  LET strategy == chooseStrategy(currentAttempt, task[1], modelHistory)
  IN /\ modelHistory' = modelHistoryChosen(currentAttempt, modelHistory)
     /\ attemptHistory' =
          Append(attemptHistory, AttemptRecord(strategy, runs))
     /\ confidence' =
          Some(calculateConfidence(success, strategy, successPatterns,
                                   attemptHistory'))

(* An attempt succeeds: orchestrateExecution returns its result, and       *)
(* executeFlow learns from it.                                             *)
attemptSucceeds ==
  /\ pc = "attempt"
  /\ attempt(TRUE)
  /\ LET strategy == chooseStrategy(currentAttempt, task[1], modelHistory)
     IN successPatterns' =
          learnFromSuccess(successPatterns, strategy.name, strategy.model,
                           task[1])
  /\ flowResult' =
       Some(FlowSuccess(Result(TRUE, FALSE, FALSE, FALSE, Undefined)))
  /\ pc' = "done"
  /\ UNCHANGED <<failurePatterns, runs, handoffCallback, approval,
                 currentAttempt, task,
                 decisions, classification, handoffId, startTime,
                 lastPolled, humanChoice>>
  /\ UNCHANGED registryVars

(* orchestrateExecution's loop condition. *)
loopContinues_OneMore(attemptNumber) == attemptNumber <= maxRetries
loopContinues(attemptNumber) == attemptNumber < maxRetries

(* An attempt fails with error text e: currentAttempt++, decideOnFailure,  *)
(* then initiateHandoff, the next loop iteration, or the final throw that  *)
(* executeFlow catches (learnFromFailure).                                 *)
attemptFails(e) ==
  /\ pc = "attempt"
  /\ attempt(FALSE)
  /\ UNCHANGED <<task, successPatterns>>
  /\ LET n == currentAttempt + 1
         decision == decideOnFailure(e, n, failurePatterns)
     IN /\ currentAttempt' = n
        /\ decisions' = Append(decisions, decision)
        /\ IF decision.action = "handoff"
           THEN IF handoffCallback = "agent"
                THEN /\ classification' =
                          Some(classifyHandoff(decision.reason))
                     /\ pc' = "handoff"
                     /\ UNCHANGED <<flowResult, failurePatterns>>
                ELSE IF handoffCallback = "custom"
                THEN /\ pc' = "callback"
                     /\ UNCHANGED <<classification, flowResult,
                                    failurePatterns>>
                ELSE /\ flowResult' =
                          Some(FlowSuccess(
                                 Result(FALSE, FALSE, FALSE, TRUE, Undefined)))
                     /\ pc' = "done"
                     /\ UNCHANGED <<classification, failurePatterns>>
           ELSE IF loopContinues(n)
                THEN /\ pc' = "attempt"
                     /\ UNCHANGED <<classification, flowResult,
                                    failurePatterns>>
                ELSE /\ flowResult' = Some(FlowFailure(MsgExhausted))
                     /\ failurePatterns' =
                          learnFromFailure(failurePatterns, MsgExhausted)
                     /\ pc' = "done"
                     /\ UNCHANGED classification
  /\ UNCHANGED <<runs, handoffCallback, approval, handoffId, startTime,
                 lastPolled,
                 humanChoice>>
  /\ UNCHANGED registryVars

attemptFailsStep == \E e \in ErrorTexts : attemptFails(e)

(* handleIntelligentHandoff: the POST to /api/handoff succeeds. *)
postHandoff ==
  /\ pc = "handoff"
  /\ handoffId' = Some(nextHandoffId)
  /\ createHandoff(Last(decisions).options, classification[1].urgency)
  /\ pc' = "posted"
  /\ UNCHANGED contextVars
  /\ UNCHANGED <<failurePatterns, runs, handoffCallback, approval,
                 currentAttempt,
                 decisions, classification, startTime, lastPolled,
                 humanChoice, flowResult>>

(* The run ends with the human choice the callback returned:               *)
(* initiateHandoff returns resumeFromHandoff(humanChoice), and executeFlow *)
(* wraps whatever orchestrateExecution returned.                           *)
finishWith(choice) ==
  /\ humanChoice' = Some(choice)
  /\ flowResult' = Some(FlowSuccess(resumeFromHandoff(choice)))
  /\ pc' = "done"

(* The custom callback returns its choice; for modify_approach the result *)
(* carries the choice's strategy, which executeFlow learns as a success.   *)
callbackReturns(action) ==
  /\ pc = "callback"
  /\ finishWith(CustomChoice(action))
  /\ successPatterns' =
       IF action = "modify_approach"
       THEN learnFromSuccess(successPatterns, "user_guided", Undefined,
                             task[1])
       ELSE successPatterns
  /\ UNCHANGED <<task, attemptHistory, modelHistory, confidence>>
  /\ UNCHANGED <<failurePatterns, runs, handoffCallback, approval,
                 currentAttempt,
                 decisions, classification, handoffId, startTime, lastPolled>>
  /\ UNCHANGED registryVars

callbackReturnsStep == \E action \in CustomActions : callbackReturns(action)

(* The custom callback throws: orchestrateExecution's catch counts another *)
(* attempt, and either rethrows to executeFlow (learnFromFailure) or lets  *)
(* the loop go on.                                                         *)
callbackThrows ==
  /\ pc = "callback"
  /\ currentAttempt' = currentAttempt + 1
  /\ IF currentAttempt + 1 >= maxRetries
     THEN /\ flowResult' = Some(FlowFailure(E_Operator))
          /\ failurePatterns' = learnFromFailure(failurePatterns, E_Operator)
          /\ pc' = "done"
     ELSE /\ pc' = "attempt"
          /\ UNCHANGED <<flowResult, failurePatterns>>
  /\ UNCHANGED contextVars
  /\ UNCHANGED <<runs, handoffCallback, approval, decisions, classification,
                 handoffId, startTime, lastPolled, humanChoice>>
  /\ UNCHANGED registryVars

(* handleIntelligentHandoff: the POST throws (API unreachable); the catch  *)
(* answers with fallbackLocalHandoff.                                      *)
postHandoffFails ==
  /\ pc = "handoff"
  /\ finishWith(fallbackLocalHandoff)
  /\ UNCHANGED contextVars
  /\ UNCHANGED <<failurePatterns, runs, handoffCallback, approval,
                 currentAttempt,
                 decisions, classification, handoffId, startTime, lastPolled>>
  /\ UNCHANGED registryVars

(* waitForHumanResponse is entered: startTime = Date.now(). *)
startWait ==
  /\ pc = "posted"
  /\ startTime' = Some(now)
  /\ pc' = "wait"
  /\ UNCHANGED contextVars
  /\ UNCHANGED <<failurePatterns, runs, handoffCallback, approval,
                 currentAttempt,
                 decisions, classification, handoffId, lastPolled,
                 humanChoice, flowResult>>
  /\ UNCHANGED registryVars

withinTimeout == now - startTime[1] < classification[1].timeoutMs

(* One iteration of the polling loop: GET the handoff; 'responded' returns *)
(* the response; 'expired' throws inside the try, whose catch only logs    *)
(* and sleeps, so the loop goes on like for 'waiting'.                     *)
pollHandoff ==
  /\ pc = "wait"
  /\ withinTimeout
  /\ getHandoff(handoffId[1])
  /\ LET handoff == handoffs'[handoffId[1]]
     IN /\ lastPolled' = Some(handoff.status)
        /\ IF handoff.status = "responded"
           THEN finishWith(
                  HumanChoice(handoff.human_response[1].action, FALSE))
           ELSE UNCHANGED <<pc, humanChoice, flowResult>>
  /\ UNCHANGED contextVars
  /\ UNCHANGED <<failurePatterns, runs, handoffCallback, approval,
                 currentAttempt,
                 decisions, classification, handoffId, startTime>>

(* The loop condition fails: waitForHumanResponse throws the timeout, and  *)
(* handleIntelligentHandoff's catch answers with fallbackLocalHandoff.     *)
waitTimeout ==
  /\ pc = "wait"
  /\ ~withinTimeout
  /\ finishWith(fallbackLocalHandoff)
  /\ UNCHANGED contextVars
  /\ UNCHANGED <<failurePatterns, runs, handoffCallback, approval,
                 currentAttempt,
                 decisions, classification, handoffId, startTime, lastPolled>>
  /\ UNCHANGED registryVars

---------------------------------------------------------------------------
(* ProductionAgent.executeProductionTask for a task with                  *)
(* humanApprovalRequired: requestHumanApproval first, executeFlow only    *)
(* when the approval is granted.                                           *)

ApprovalOptions == <<"approve", "deny", "modify_task">>

(* requestHumanApproval's answer: approved only for the action 'approve'. *)
isApproved_NotDenied(action) == action # "deny"
isApproved(action) == action = "approve"

Approval(approved, action) == [approved |-> approved, action |-> action]

(* The task starts and posts its approval handoff (urgency high), and     *)
(* waitForHumanResponse is entered with a timeout of ten minutes.         *)
requestHumanApproval ==
  /\ pc \in {"idle", "done"}
  /\ runs < MaxRuns
  /\ runs' = runs + 1
  /\ handoffId' = Some(nextHandoffId)
  /\ createHandoff(ApprovalOptions, "high")
  /\ startTime' = Some(now)
  /\ pc' = "approval"
  /\ currentAttempt' = 0
  /\ decisions' = <<>>
  /\ classification' = Null
  /\ lastPolled' = Null
  /\ humanChoice' = Null
  /\ flowResult' = Null
  /\ approval' = Null
  /\ UNCHANGED contextVars
  /\ UNCHANGED <<failurePatterns, handoffCallback>>

(* The task starts and the POST of its approval handoff throws: the catch *)
(* answers approved: false and the task returns without executeFlow.      *)
requestHumanApprovalFails ==
  /\ pc \in {"idle", "done"}
  /\ runs < MaxRuns
  /\ runs' = runs + 1
  /\ approval' = Some(Approval(FALSE, Undefined))
  /\ pc' = "done"
  /\ currentAttempt' = 0
  /\ decisions' = <<>>
  /\ classification' = Null
  /\ handoffId' = Null
  /\ startTime' = Null
  /\ lastPolled' = Null
  /\ humanChoice' = Null
  /\ flowResult' = Null
  /\ UNCHANGED contextVars
  /\ UNCHANGED <<failurePatterns, handoffCallback>>
  /\ UNCHANGED registryVars

(* One poll of the approval wait: a response ends it; the task goes on to *)
(* executeFlow when the response approves (the run then starts without a  *)
(* request or a wait of its own), and returns otherwise.                  *)
pollApproval ==
  /\ pc = "approval"
  /\ now - startTime[1] < TimeoutApproval
  /\ getHandoff(handoffId[1])
  /\ LET handoff == handoffs'[handoffId[1]]
         action == handoff.human_response[1].action
     IN IF handoff.status = "responded" /\ isApproved(action)
        THEN /\ approval' = Some(Approval(TRUE, action))
             /\ pc' = "attempt"
             /\ task' = Some(D_General)
             /\ handoffId' = Null
             /\ startTime' = Null
             /\ lastPolled' = Null
        ELSE IF handoff.status = "responded"
        THEN /\ approval' = Some(Approval(FALSE, action))
             /\ pc' = "done"
             /\ lastPolled' = Some(handoff.status)
             /\ UNCHANGED <<task, handoffId, startTime>>
        ELSE /\ lastPolled' = Some(handoff.status)
             /\ UNCHANGED <<pc, approval, task, handoffId, startTime>>
  /\ UNCHANGED <<attemptHistory, modelHistory, successPatterns, confidence>>
  /\ UNCHANGED <<failurePatterns, runs, handoffCallback, currentAttempt,
                 decisions, classification, humanChoice, flowResult>>

(* The approval wait times out: approved: false. *)
approvalTimeout ==
  /\ pc = "approval"
  /\ ~(now - startTime[1] < TimeoutApproval)
  /\ approval' = Some(Approval(FALSE, Undefined))
  /\ pc' = "done"
  /\ UNCHANGED contextVars
  /\ UNCHANGED <<failurePatterns, runs, handoffCallback, currentAttempt,
                 decisions, classification, handoffId, startTime, lastPolled,
                 humanChoice, flowResult>>
  /\ UNCHANGED registryVars

(* ProductionAgent.state, and what executeProductionTask returns: success *)
(* false when the approval                                                 *)
(* was not granted, success true with whatever executeFlow returned.      *)
agentState ==
  IF pc = "idle" THEN "idle"
  ELSE IF flowResult # Null THEN "completed"
  ELSE "executing"

taskResult ==
  IF approval # Null /\ ~approval[1].approved
  THEN Some([success |-> FALSE, reason |-> "Human approval denied"])
  ELSE IF flowResult # Null
  THEN Some([success |-> TRUE, reason |-> ""])
  ELSE Null

---------------------------------------------------------------------------
(* BrowserStreamServer: handoff sessions and their streaming channel.      *)
(* serverKind = "stream" follows browser-stream-server.ts, "standalone"    *)
(* follows standalone-stream-server.js (its session.connected is the       *)
(* humanConnected field here).                                             *)

ServerKinds == {"stream", "standalone"}

(* The error messages the servers send. *)
SessionNotFound == <<"Session not found">>
FailedTo(type) == <<"Failed to ", type>>

(* A session object as createHandoffSession / createTestSession stores it. *)
Session ==
  [inTable |-> TRUE, isActive |-> TRUE, humanConnected |-> FALSE,
   streamInterval |-> Null, ws |-> Null]

(* A connection: the session id of its URL, whether the server attached    *)
(* its handlers, its readyState, and what the server has sent on it.       *)
Socket(sid, attached, readyState, errors) ==
  [session |-> sid, attached |-> attached, readyState |-> readyState,
   msgs |-> {}, frames |-> 0, errors |-> errors]

(* The points of click and move events. *)
Points == {<<100, 200>>}

(* The messages an operator sends: input events, complete_handoff, a type  *)
(* the servers do not know, and text that is not JSON.                     *)
OperatorMessages ==
  {[type |-> t, data |-> p] : t \in {"click", "move"}, p \in Points}
    \cup {[type |-> t, data |-> <<>>] :
            t \in {"complete_handoff", "hover", "malformed"}}

InputTypes == {"click", "move"}

(* ws.send(msg) on socket c: delivered when the socket is open. *)
sendMsg(socks, c, type) ==
  IF socks[c].readyState = "open"
  THEN [socks EXCEPT ![c].msgs = @ \cup {type}]
  ELSE socks

sendFrame(socks, c) ==
  IF socks[c].readyState = "open"
  THEN [socks EXCEPT ![c].frames = @ + 1]
  ELSE socks

sendError(socks, c, message) ==
  IF socks[c].readyState = "open"
  THEN [socks EXCEPT ![c].errors = Append(@, message)]
  ELSE socks

(* broadcastSessionUpdate: sessions_update to every open client. *)
broadcastSessionUpdate(socks) ==
  [c \in DOMAIN socks |->
     IF socks[c].readyState = "open"
     THEN [socks[c] EXCEPT !.msgs = @ \cup {"sessions_update"}]
     ELSE socks[c]]

(* clearInterval(session.streamInterval): the handles it takes away. *)
clearInterval(handle) == IF handle = Null THEN {} ELSE {handle[1]}

(* sessions.get(sessionId) finds a session. *)
sessionFound(sid) ==
  /\ sid \in DOMAIN sessions
  /\ sessions[sid].inTable

(* createHandoffSession (the engine's triggerHandoff calls it) and         *)
(* createTestSession: a new active session without operator.               *)
createHandoffSession ==
  /\ sessions' = Append(sessions, Session)
  /\ sockets' = IF serverKind = "stream"
                THEN broadcastSessionUpdate(sockets)
                ELSE sockets
  /\ UNCHANGED <<serverKind, clock, liveIntervals, captures, received,
                 pageCalls, cleanupTimers>>

(* wss.on('connection'): an operator connects with session id sid.  An     *)
(* unknown id is answered with the error and closed.  Otherwise the        *)
(* session is marked connected, sendInitialState is started (its           *)
(* screenshot is awaited) and startStreaming replaces the session's        *)
(* interval by a new one.                                                  *)
connection(sid) ==
  /\ Len(sockets) < MaxSockets
  /\ LET c == Len(sockets) + 1
     IN IF ~sessionFound(sid)
        THEN /\ sockets' = Append(sockets,
                             Socket(sid, FALSE, "closed", <<SessionNotFound>>))
             /\ UNCHANGED <<sessions, liveIntervals, captures>>
        ELSE /\ sockets' = Append(sockets, Socket(sid, TRUE, "open", <<>>))
             /\ sessions' =
                  [sessions EXCEPT ![sid] =
                     [@ EXCEPT !.humanConnected = TRUE,
                               !.ws = IF serverKind = "standalone"
                                      THEN Some(c) ELSE @,
                               !.streamInterval = Some(c)]]
             /\ liveIntervals' =
                  (liveIntervals \ clearInterval(sessions[sid].streamInterval))
                    \cup {c}
             /\ captures' =
                  captures \cup {[socket |-> c, kind |-> "initial", n |-> 1]}
  /\ UNCHANGED <<serverKind, clock, received, pageCalls, cleanupTimers>>

(* ws.on('close'): the operator of socket c disconnects. *)
onClose_EndsSession(c) ==
  /\ c \in DOMAIN sockets
  /\ sockets[c].readyState = "open"
  /\ LET sid == sockets[c].session
     IN /\ sockets' = [sockets EXCEPT ![c].readyState = "closed"]
        /\ sessions' = [sessions EXCEPT ![sid].humanConnected = FALSE,
                                        ![sid].isActive = FALSE]
        /\ liveIntervals' =
             liveIntervals \ clearInterval(sessions[sid].streamInterval)
  /\ UNCHANGED <<serverKind, clock, captures, received, pageCalls,
                 cleanupTimers>>
onClose(c) ==
  /\ c \in DOMAIN sockets
  /\ sockets[c].readyState = "open"
  /\ LET sid == sockets[c].session
     IN /\ sockets' = [sockets EXCEPT ![c].readyState = "closed"]
        /\ sessions' = [sessions EXCEPT ![sid].humanConnected = FALSE]
        /\ liveIntervals' =
             liveIntervals \ clearInterval(sessions[sid].streamInterval)
  /\ UNCHANGED <<serverKind, clock, captures, received, pageCalls,
                 cleanupTimers>>

(* The test at the head of the interval callback: the tick stops the       *)
(* streaming instead of capturing a frame.                                 *)
tickStops(session) ==
  IF serverKind = "stream"
  THEN ~session.humanConnected \/ ~session.isActive
  ELSE \/ ~session.humanConnected
       \/ session.ws = Null
       \/ sockets[session.ws[1]].readyState # "open"

(* The number of screenshots the interval made for socket c has in flight. *)
outstanding(c) ==
  Cardinality({cap \in captures : cap.socket = c /\ cap.kind = "tick"})

(* The callback of the interval made for socket c fires: unless the test   *)
(* at its head stops the streaming it awaits a screenshot, whether or not  *)
(* the screenshots of earlier ticks have arrived.                          *)
streamTick(c) ==
  /\ c \in liveIntervals
  /\ LET sid == sockets[c].session
     IN IF tickStops(sessions[sid])
        THEN /\ liveIntervals' =
                  liveIntervals \ clearInterval(sessions[sid].streamInterval)
             /\ UNCHANGED captures
        ELSE /\ outstanding(c) < MaxOutstanding
             /\ captures' =
                  captures \cup {[socket |-> c, kind |-> "tick",
                                  n |-> outstanding(c) + 1]}
             /\ UNCHANGED liveIntervals
  /\ UNCHANGED <<serverKind, clock, sessions, sockets, received, pageCalls,
                 cleanupTimers>>

(* The socket a captured frame is sent on: the ws of the connection that   *)
(* started the capture; the standalone server's interval sends on          *)
(* session.ws as it is when the screenshot is there.                       *)
frameTarget(cap) ==
  IF serverKind = "standalone" /\ cap.kind = "tick"
  THEN sessions[sockets[cap.socket].session].ws[1]
  ELSE cap.socket

(* An awaited screenshot is there and the frame is sent (after the         *)
(* initial_state message, for sendInitialState), or the screenshot throws  *)
(* and the catch drops it.                                                 *)
captureDone(cap, ok) ==
  /\ cap \in captures
  /\ cap.kind = "tick" => cap.n = outstanding(cap.socket)
  /\ captures' = captures \ {cap}
  /\ LET target == frameTarget(cap)
     IN IF ok
        THEN /\ sockets[target].frames < MaxFrames
             /\ sockets' =
                  sendFrame(IF cap.kind = "initial"
                            THEN sendMsg(sockets, target, "initial_state")
                            ELSE sockets,
                            target)
        ELSE UNCHANGED sockets
  /\ UNCHANGED <<serverKind, clock, sessions, liveIntervals, received,
                 pageCalls, cleanupTimers>>

(* The page call handleHumanInput / handleClientMessage makes for an input *)
(* event: click -> page.mouse.click(x, y), move -> page.mouse.move(x, y).  *)
forward_Swapped(message) ==
  [fn |-> IF message.type = "click" THEN "mouse.move" ELSE "mouse.click",
   args |-> message.data]
forward(message) ==
  [fn |-> IF message.type = "click" THEN "mouse.click" ELSE "mouse.move",
   args |-> message.data]

(* completeHandoff(sessionId, resolution) of browser-stream-server.ts. *)
completeHandoff(sid) ==
  IF ~sessionFound(sid)
  THEN UNCHANGED <<sessions, sockets, cleanupTimers>>
  ELSE /\ sessions' = [sessions EXCEPT ![sid].isActive = FALSE]
       /\ cleanupTimers' =
            cleanupTimers \cup {[session |-> sid, due |-> clock + GraceDelay]}
       /\ sockets' = broadcastSessionUpdate(sockets)

(* ws.on('message'): a message of the operator of socket c arrives.        *)
(* JSON.parse throws on text that is not JSON and the catch logs it; an    *)
(* input event is forwarded by a call on session.page, issued before the   *)
(* handler first awaits; complete_handoff closes the session.              *)
onMessage(c, message) ==
  /\ c \in DOMAIN sockets
  /\ sockets[c].readyState = "open"
  /\ received < MaxEvents
  /\ received' = received + 1
  /\ LET sid == sockets[c].session
     IN IF message.type \in InputTypes
        THEN /\ pageCalls' =
                  Append(pageCalls,
                         [call |-> forward(message), session |-> sid,
                          type |-> message.type, state |-> "pending"])
             /\ UNCHANGED <<sessions, sockets, cleanupTimers>>
        ELSE IF message.type = "complete_handoff"
        THEN /\ IF serverKind = "stream"
                THEN completeHandoff(sid)
                ELSE /\ sessions' = [sessions EXCEPT ![sid].isActive = FALSE]
                     /\ UNCHANGED <<sockets, cleanupTimers>>
             /\ UNCHANGED pageCalls
        ELSE UNCHANGED <<sessions, sockets, pageCalls, cleanupTimers>>
  /\ UNCHANGED <<serverKind, clock, liveIntervals, captures>>

(* The promise of page call i settles.  When it rejects, the stream        *)
(* server's catch logs the error; the standalone server's catch sends an   *)
(* error message on session.ws.                                            *)
callDone(i, ok) ==
  /\ i \in DOMAIN pageCalls
  /\ pageCalls[i].state = "pending"
  /\ pageCalls' = [pageCalls EXCEPT ![i].state =
                     IF ok THEN "resolved" ELSE "rejected"]
  /\ LET session == sessions[pageCalls[i].session]
     IN IF ~ok /\ serverKind = "standalone"
        THEN sockets' = sendError(sockets, session.ws[1],
                                  FailedTo(pageCalls[i].type))
        ELSE UNCHANGED sockets
  /\ UNCHANGED <<serverKind, clock, sessions, liveIntervals, captures,
                 received, cleanupTimers>>

(* The setTimeout callback of completeHandoff: the interval is cleared and *)
(* the session leaves the table.                                           *)
cleanup(timer) ==
  /\ timer \in cleanupTimers
  /\ clock >= timer.due
  /\ cleanupTimers' = cleanupTimers \ {timer}
  /\ liveIntervals' =
       liveIntervals \ clearInterval(sessions[timer.session].streamInterval)
  /\ sessions' = [sessions EXCEPT ![timer.session].inTable = FALSE]
  /\ UNCHANGED <<serverKind, clock, sockets, captures, received, pageCalls>>

(* Time passes (up to MaxClock, and up to the last pending timer). *)
advanceClock ==
  /\ \/ clock < MaxClock
     \/ \E timer \in cleanupTimers : clock < timer.due
  /\ clock' = clock + 1
  /\ UNCHANGED <<serverKind, sessions, sockets, liveIntervals, captures,
                 received, pageCalls, cleanupTimers>>

(* The error texts of the engine: a failed analysis, a failed action, and  *)
(* what page.title() rejects with when triggerHandoff reads a closed page. *)
E_AIError == <<"A", "I", " ", "E", "r", "r", "o", "r">>
E_LoginTimeout ==
  <<"T", "i", "m", "e", "o", "u", "t", " ", "3", "0", "0", "0", "0", "m", "s", " ", "e", "x", "c", "e", "e", "d", "e", "d", " ",
   "w", "a", "i", "t", "i", "n", "g", " ", "f", "o", "r", " ", "l", "o", "g", "i", "n", " ", "f", "o", "r", "m">>
E_TargetClosed ==
  <<"p", "a", "g", "e", ".", "t", "i", "t", "l", "e", ":", " ", "T", "a", "r", "g", "e", "t", " ", "p", "a", "g", "e", ",", " ",
   "c", "o", "n", "t", "e", "x", "t", " ", "o", "r", " ", "b", "r", "o", "w", "s", "e", "r", " ", "h", "a", "s", " ", "b", "e", "e", "n", " ",
   "c", "l", "o", "s", "e", "d">>

(* executeTask's catch: the error asks for a handoff. *)
requiresHandoff(errorMessage) ==
  \/ includes(errorMessage, S_captcha)
  \/ includes(errorMessage,
              <<"v", "e", "r", "i", "f", "i", "c", "a", "t", "i", "o", "n">>)
  \/ includes(errorMessage, S_login)
  \/ includes(errorMessage,
              <<"a", "u", "t", "h", "e", "n", "t", "i", "c", "a", "t", "i", "o", "n">>)

(* What an executeTask call ends with: a returned TaskResult, or a throw. *)
TaskResult(success, error) ==
  [returned |-> TRUE, success |-> success, error |-> error]
Thrown(error) == [returned |-> FALSE, success |-> FALSE, error |-> error]

(* UnifiedCUAEngine.triggerHandoff: a session for the engine's page. *)
triggerHandoff ==
  /\ createHandoffSession
  /\ currentHandoffSession' = Some(Len(sessions) + 1)

(* The handoff branch of executeTask: triggerHandoff, the status           *)
(* waiting_for_human and the result with the given error.                  *)
handoffTriggered(error) ==
  /\ triggerHandoff
  /\ agentStatus' = "waiting_for_human"
  /\ outcome' = Some(TaskResult(FALSE, error))

(* executeTask's catch block for the error thrown in its try block: an     *)
(* error that asks for a handoff triggers one (outside any try), any other *)
(* sets the status error; the result carries the error's message.          *)
catchBlock(error, handoffOk) ==
  IF requiresHandoff(error)
  THEN IF handoffOk
       THEN handoffTriggered(error)
       ELSE /\ agentStatus' = "busy"
            /\ outcome' = Some(Thrown(E_TargetClosed))
            /\ UNCHANGED <<streamVars, currentHandoffSession>>
  ELSE /\ agentStatus' = "error"
       /\ outcome' = Some(TaskResult(FALSE, error))
       /\ UNCHANGED <<streamVars, currentHandoffSession>>

(* The body of executeTask on an initialised engine.  pre and post tell    *)
(* whether detectHandoffNeeds gives a reason before and after the action,  *)
(* error is what analyzeTask or executeAction throws (<<>> for nothing),   *)
(* handoffOk whether triggerHandoff succeeds.                              *)
runTask(pre, error, post, handoffOk) ==
  IF pre
  THEN /\ IF handoffOk
          THEN handoffTriggered(<<"Handoff required">>)
          ELSE catchBlock(E_TargetClosed, handoffOk)
       /\ UNCHANGED engineInputs
  ELSE IF error # <<>>
  THEN /\ catchBlock(error, handoffOk)
       /\ UNCHANGED engineInputs
  ELSE /\ engineInputs' = engineInputs + 1
       /\ IF post
          THEN IF handoffOk
               THEN handoffTriggered(<<"Handoff required after action">>)
               ELSE catchBlock(E_TargetClosed, handoffOk)
          ELSE /\ agentStatus' = "idle"
               /\ outcome' = Some(TaskResult(TRUE, <<>>))
               /\ UNCHANGED <<streamVars, currentHandoffSession>>

(* UnifiedCUAEngine.init past its isInitialized test: the browser is       *)
(* launched and the call awaits it.                                        *)
init(byTask) ==
  /\ launches' = launches + 1
  /\ inits' = Append(inits, byTask)
  /\ UNCHANGED <<isInitialized, humanBehavior>>

(* engine.init() is called: it returns at once on an initialised engine. *)
initCall ==
  /\ launches < MaxLaunches
  /\ IF isInitialized
     THEN UNCHANGED <<isInitialized, launches, inits, humanBehavior>>
     ELSE init(FALSE)
  /\ UNCHANGED <<tasks, currentHandoffSession, engineInputs, agentStatus,
                 outcome>>
  /\ UNCHANGED streamVars

(* UnifiedCUAEngine.executeTask: on an engine that is not initialised it   *)
(* awaits init first.                                                      *)
executeTask(pre, error, post, handoffOk) ==
  /\ tasks < MaxTasks
  /\ tasks' = tasks + 1
  /\ IF isInitialized
     THEN /\ runTask(pre, error, post, handoffOk)
          /\ UNCHANGED <<isInitialized, launches, inits, humanBehavior>>
     ELSE /\ launches < MaxLaunches
          /\ init(TRUE)
          /\ UNCHANGED <<streamVars, currentHandoffSession, engineInputs,
                         agentStatus, outcome>>

(* The init call number i in flight finishes: page, stream server,         *)
(* addHumanBehavior, isInitialized = true; the executeTask call that       *)
(* awaited it goes on with its body.                                       *)
initCompletes(i, pre, error, post, handoffOk) ==
  /\ i \in DOMAIN inits
  /\ isInitialized' = TRUE
  /\ humanBehavior' = humanBehavior + 1
  /\ inits' = [k \in 1..(Len(inits) - 1) |->
                 IF k < i THEN inits[k] ELSE inits[k + 1]]
  /\ IF inits[i]
     THEN runTask(pre, error, post, handoffOk)
     ELSE UNCHANGED <<streamVars, currentHandoffSession, engineInputs,
                      agentStatus, outcome>>
  /\ UNCHANGED <<tasks, launches>>

(* A callback of addHumanBehavior's intervals fires: page.mouse.move or    *)
(* page.mouse.wheel on the engine's page.                                  *)
behaviorTick ==
  /\ humanBehavior > 0
  /\ engineInputs < MaxEngineInputs
  /\ engineInputs' = engineInputs + 1
  /\ UNCHANGED <<tasks, currentHandoffSession, isInitialized, launches,
                 inits, humanBehavior, agentStatus, outcome>>
  /\ UNCHANGED streamVars

(* What an executeTask call meets: a handoff reason before the action, or  *)
(* an error of the analysis or the action, or an action that is executed   *)
(* with or without a handoff reason after it.                              *)
TaskInputs ==
  {[pre |-> TRUE, error |-> <<>>, post |-> FALSE, handoffOk |-> handoffOk] :
     handoffOk \in BOOLEAN}
  \cup {[pre |-> FALSE, error |-> error, post |-> FALSE,
         handoffOk |-> handoffOk] :
          error \in {E_AIError, E_LoginTimeout}, handoffOk \in BOOLEAN}
  \cup {[pre |-> FALSE, error |-> <<>>, post |-> post,
         handoffOk |-> handoffOk] :
          post \in BOOLEAN, handoffOk \in BOOLEAN}

engineRunsTask ==
  \E input \in TaskInputs :
    executeTask(input.pre, input.error, input.post, input.handoffOk)
initSettles ==
  \E i \in DOMAIN inits, input \in TaskInputs :
    initCompletes(i, input.pre, input.error, input.post, input.handoffOk)
sessionIsCreated == Len(sessions) < MaxSessions /\ createHandoffSession

operatorConnects == \E sid \in 1..(MaxSessions + 1) : connection(sid)
operatorDisconnects == \E c \in DOMAIN sockets : onClose(c)
operatorSends ==
  \E c \in DOMAIN sockets, message \in OperatorMessages : onMessage(c, message)
intervalFires == \E c \in liveIntervals : streamTick(c)
screenshotSettles == \E cap \in captures, ok \in BOOLEAN : captureDone(cap, ok)
pageCallSettles == \E i \in DOMAIN pageCalls, ok \in BOOLEAN : callDone(i, ok)
cleanupFires == \E timer \in cleanupTimers : cleanup(timer)

(* The UnifiedCUAEngine after construction. *)
EngineReady ==
  /\ tasks = 0
  /\ currentHandoffSession = Null
  /\ isInitialized = FALSE
  /\ launches = 0
  /\ inits = <<>>
  /\ humanBehavior = 0
  /\ engineInputs = 0
  /\ agentStatus = "idle"
  /\ outcome = Null

(* The stream variables before the server has any session. *)
StreamIdle ==
  /\ clock = 0
  /\ sessions = <<>>
  /\ sockets = <<>>
  /\ liveIntervals = {}
  /\ captures = {}
  /\ received = 0
  /\ pageCalls = <<>>
  /\ cleanupTimers = {}

---------------------------------------------------------------------------
(* The registry and the brain after construction. *)
EngineIdle ==
  /\ now = 0
  /\ handoffs = <<>>
  /\ completedHandoffs = {}
  /\ resumeTriggered = {}
  /\ res = NoResponse
  /\ failurePatterns = <<>>
  /\ runs = 0
  /\ approval = Null
  /\ task = Null
  /\ attemptHistory = <<>>
  /\ modelHistory = <<>>
  /\ successPatterns = <<>>
  /\ confidence = Null
  /\ pc = "idle"
  /\ currentAttempt = 0
  /\ decisions = <<>>
  /\ classification = Null
  /\ handoffId = Null
  /\ startTime = Null
  /\ lastPolled = Null
  /\ humanChoice = Null
  /\ flowResult = Null

Init ==
  /\ EngineIdle
  /\ handoffCallback \in {"agent", "null"}
  /\ serverKind = "stream"
  /\ StreamIdle
  /\ EngineReady

RegistryNext ==
  \/ ClientCreate /\ UNCHANGED <<streamVars, engineVars>>
  \/ ClientGet /\ UNCHANGED <<streamVars, engineVars>>
  \/ ClientRespond /\ UNCHANGED <<streamVars, engineVars>>
  \/ ClientList /\ UNCHANGED <<streamVars, engineVars>>
  \/ ClientContext /\ UNCHANGED <<streamVars, engineVars>>
  \/ Tick /\ UNCHANGED <<streamVars, engineVars>>

RegistrySpec == Init /\ [][RegistryNext]_vars

(* The engine with its agent, the operators of its handoffs, the clock:   *)
(* here every handoff request is one the agent posted.                    *)
Next ==
  \/ agentRunsTask /\ UNCHANGED <<streamVars, engineVars>>
  \/ attemptSucceeds /\ UNCHANGED <<streamVars, engineVars>>
  \/ attemptFailsStep /\ UNCHANGED <<streamVars, engineVars>>
  \/ postHandoff /\ UNCHANGED <<streamVars, engineVars>>
  \/ postHandoffFails /\ UNCHANGED <<streamVars, engineVars>>
  \/ startWait /\ UNCHANGED <<streamVars, engineVars>>
  \/ pollHandoff /\ UNCHANGED <<streamVars, engineVars>>
  \/ waitTimeout /\ UNCHANGED <<streamVars, engineVars>>
  \/ requestHumanApproval /\ UNCHANGED <<streamVars, engineVars>>
  \/ requestHumanApprovalFails /\ UNCHANGED <<streamVars, engineVars>>
  \/ pollApproval /\ UNCHANGED <<streamVars, engineVars>>
  \/ approvalTimeout /\ UNCHANGED <<streamVars, engineVars>>
  \/ ClientGet /\ UNCHANGED <<streamVars, engineVars>>
  \/ ClientRespond /\ UNCHANGED <<streamVars, engineVars>>
  \/ Tick /\ UNCHANGED <<streamVars, engineVars>>

Spec == Init /\ [][Next]_vars

(* A FlowBrain on its own, without a handoff callback or with a custom    *)
(* one, running tasks of every type.                                       *)
BrainInit ==
  /\ EngineIdle
  /\ handoffCallback \in {"custom", "null"}
  /\ serverKind = "stream"
  /\ StreamIdle
  /\ EngineReady

BrainNext ==
  \/ brainRunsTask /\ UNCHANGED <<streamVars, engineVars>>
  \/ attemptSucceeds /\ UNCHANGED <<streamVars, engineVars>>
  \/ attemptFailsStep /\ UNCHANGED <<streamVars, engineVars>>
  \/ callbackReturnsStep /\ UNCHANGED <<streamVars, engineVars>>
  \/ callbackThrows /\ UNCHANGED <<streamVars, engineVars>>

BrainSpec == BrainInit /\ [][BrainNext]_vars

(* The same brain when every agent call and every handoff callback        *)
(* settles.                                                                *)
BrainFairSpec ==
  /\ BrainSpec
  /\ WF_vars((attemptSucceeds \/ attemptFailsStep)
               /\ UNCHANGED <<streamVars, engineVars>>)
  /\ WF_vars((callbackReturnsStep \/ callbackThrows)
               /\ UNCHANGED <<streamVars, engineVars>>)

(* A stream server of either kind, its sessions and their operators. *)
StreamInit ==
  /\ EngineIdle
  /\ handoffCallback = "null"
  /\ serverKind \in ServerKinds
  /\ StreamIdle
  /\ EngineReady

StreamNext ==
  \/ sessionIsCreated /\ UNCHANGED <<registryVars, brainVars, engineVars>>
  \/ operatorConnects /\ UNCHANGED <<registryVars, brainVars, engineVars>>
  \/ operatorDisconnects /\ UNCHANGED <<registryVars, brainVars, engineVars>>
  \/ operatorSends /\ UNCHANGED <<registryVars, brainVars, engineVars>>
  \/ intervalFires /\ UNCHANGED <<registryVars, brainVars, engineVars>>
  \/ screenshotSettles /\ UNCHANGED <<registryVars, brainVars, engineVars>>
  \/ pageCallSettles /\ UNCHANGED <<registryVars, brainVars, engineVars>>
  \/ cleanupFires /\ UNCHANGED <<registryVars, brainVars, engineVars>>
  \/ advanceClock /\ UNCHANGED <<registryVars, brainVars, engineVars>>

StreamSpec == StreamInit /\ [][StreamNext]_vars

(* A UnifiedCUAEngine with its stream server: the tasks it executes, the   *)
(* sessions its handoffs create, and the operators who connect to them,    *)
(* send input and complete them.                                           *)
EngineNext ==
  \/ initCall /\ UNCHANGED <<registryVars, brainVars>>
  \/ engineRunsTask /\ UNCHANGED <<registryVars, brainVars>>
  \/ initSettles /\ UNCHANGED <<registryVars, brainVars>>
  \/ behaviorTick /\ UNCHANGED <<registryVars, brainVars>>
  \/ operatorConnects /\ UNCHANGED <<registryVars, brainVars, engineVars>>
  \/ operatorDisconnects /\ UNCHANGED <<registryVars, brainVars, engineVars>>
  \/ operatorSends /\ UNCHANGED <<registryVars, brainVars, engineVars>>
  \/ cleanupFires /\ UNCHANGED <<registryVars, brainVars, engineVars>>
  \/ advanceClock /\ UNCHANGED <<registryVars, brainVars, engineVars>>

EngineSpec == Init /\ [][EngineNext]_vars

(* The same server when no timer, no interval, no awaited screenshot and   *)
(* no page call is delayed forever.  Operators are free to stay away.      *)
StreamFairSpec ==
  /\ StreamSpec
  /\ WF_vars(intervalFires /\ UNCHANGED <<registryVars, brainVars, engineVars>>)
  /\ WF_vars(screenshotSettles /\ UNCHANGED <<registryVars, brainVars, engineVars>>)
  /\ WF_vars(pageCallSettles /\ UNCHANGED <<registryVars, brainVars, engineVars>>)
  /\ WF_vars(cleanupFires /\ UNCHANGED <<registryVars, brainVars, engineVars>>)
  /\ WF_vars(advanceClock /\ UNCHANGED <<registryVars, brainVars, engineVars>>)

---------------------------------------------------------------------------
(* Properties of the handoff request registry (checked under RegistrySpec). *)

(* C1: a request's status only ever changes waiting -> responded or        *)
(* waiting -> expired: once it has left waiting it keeps its status, so a  *)
(* responded request never becomes expired.                                *)
C1_StatusOnlyLeavesWaiting ==
  [][\A id \in DOMAIN handoffs :
       handoffs[id].status # "waiting"
         => handoffs'[id].status = handoffs[id].status]_vars

(* C2: a response submitted after the request's expires_at has passed is   *)
(* rejected: no recorded human_response is dated after expires_at, with or *)
(* without a read of the request between the expiry and the response.     *)
C2_NoResponseAfterExpiry ==
  \A id \in DOMAIN handoffs :
    handoffs[id].human_response # Null
      => handoffs[id].human_response[1].responded_at
           <= handoffs[id].expires_at

(* C3: respond is idempotent-safe: a respondToHandoff call, with any       *)
(* action, on a request that is already responded is rejected as already   *)
(* responded and changes neither the stored human_response, the status nor *)
(* the resolution_time (nor triggers another resume).                      *)
C3_RespondAppliedAtMostOnce ==
  [][\A id \in Ids, action \in ActionInputs :
       ( /\ id \in DOMAIN handoffs
         /\ handoffs[id].status = "responded"
         /\ respondToHandoff(id, action) )
       => /\ res' = Response(400, "Handoff already responded", <<>>)
          /\ handoffs'[id].human_response = handoffs[id].human_response
          /\ handoffs'[id].status = handoffs[id].status
          /\ handoffs'[id].resolution_time = handoffs[id].resolution_time
          /\ handoffs' = handoffs
          /\ resumeTriggered' = resumeTriggered]_vars

(* A second respond call was rejected on a request that is responded. *)
C3_Witness ==
  /\ res = Response(400, "Handoff already responded", <<>>)
  /\ \E id \in DOMAIN handoffs :
       /\ handoffs[id].status = "responded"
       /\ handoffs[id].human_response # Null

(* C4: respondToHandoff on a waiting request with an action outside its    *)
(* options is rejected as an invalid action, the rejection lists the       *)
(* request's options, and the request stays waiting, without response and  *)
(* out of the completed handoffs; respondToHandoff on an unknown id fails  *)
(* with not-found and changes no request.                                  *)
C4_InvalidActionAndUnknownIdRejected ==
  [][\A id \in Ids, action \in ActionInputs :
       respondToHandoff(id, action)
       => /\ id \notin DOMAIN handoffs
               => /\ res' = Response(404, "Handoff not found", <<>>)
                  /\ handoffs' = handoffs
                  /\ completedHandoffs' = completedHandoffs
          /\ ( /\ id \in DOMAIN handoffs
               /\ handoffs[id].status = "waiting"
               /\ ~listIncludes(handoffs[id].options, action) )
               => /\ res' = Response(400, "Invalid action",
                                     handoffs[id].options)
                  /\ handoffs' = handoffs
                  /\ handoffs'[id].status = "waiting"
                  /\ handoffs'[id].human_response = Null
                  /\ id \notin completedHandoffs']_vars

(* An invalid action was rejected on a request that is still waiting. *)
C4_Witness ==
  /\ res.code = 400
  /\ res.error = "Invalid action"
  /\ \E id \in DOMAIN handoffs :
       /\ res.available_options = handoffs[id].options
       /\ handoffs[id].status = "waiting"
       /\ handoffs[id].human_response = Null
       /\ id \notin completedHandoffs

---------------------------------------------------------------------------
(* Properties of the escalation engine and its agent (checked under Spec). *)

patternsOf(ds) == [i \in 1..Len(ds) |-> ds[i].errorPattern]
actionsOf(ds) == [i \in 1..Len(ds) |-> ds[i].action]

(* C5: every failed attempt whose error classifies as captcha, at any      *)
(* attempt number, is decided as a handoff (never a retry), and the        *)
(* handoff request created for it has urgency urgent.                      *)
C5_CaptchaEscalatesUrgent ==
  /\ \A i \in DOMAIN decisions :
       decisions[i].errorPattern = "captcha_detected"
         => decisions[i].action = "handoff"
  /\ ( /\ decisions # <<>>
       /\ Last(decisions).errorPattern = "captcha_detected" )
     => /\ classification # Null => classification[1].urgency = "urgent"
        /\ handoffId # Null => handoffs[handoffId[1]].urgency = "urgent"

(* A captcha at the third attempt, after two retries, with its request. *)
C5_Witness ==
  /\ Len(decisions) = 3
  /\ Last(decisions).errorPattern = "captcha_detected"
  /\ handoffId # Null
  /\ handoffs[handoffId[1]].urgency = "urgent"

C7_RepeatedClassificationEscalates ==
  \A i \in DOMAIN decisions :
    (\E j \in 1..(i - 1) :
       decisions[j].errorPattern = decisions[i].errorPattern)
      => decisions[i].action = "handoff"

(* The run ended because one of its attempts succeeded. *)
attemptSucceeded ==
  /\ flowResult # Null
  /\ flowResult[1].result # Null
  /\ flowResult[1].result[1].success
  /\ ~flowResult[1].result[1].resumed

(* C8: a run all of whose attempts failed with a non-captcha               *)
(* classification never ends without a handoff having been initiated, and  *)
(* that handoff has the options manual_intervention, change_strategy,      *)
(* abort_task and urgency high.                                            *)
C8_AllFailedRunEndsInEscalation ==
  ( /\ pc = "done"
    /\ decisions # <<>>
    /\ ~attemptSucceeded
    /\ \A i \in DOMAIN decisions :
         decisions[i].errorPattern # "captcha_detected" )
  => /\ Last(decisions).action = "handoff"
     /\ Last(decisions).options = MultipleOptions
     /\ classification # Null => classification[1].urgency = "high"

(* C9: three failures classified timeout, timeout, selector_not_found are  *)
(* decided Retry, Retry, Escalate, the escalation with the options         *)
(* manual_intervention, change_strategy, abort_task and urgency high.      *)
(* The run is followed from its first failure: as far as the failures of   *)
(* the scenario have happened, the decisions are those of the scenario.    *)
C9_TimeoutTimeoutSelectorScenario ==
  LET scenario == <<"timeout", "timeout", "selector_not_found">>
      expected == <<"retry", "retry", "handoff">>
      n == Len(decisions)
  IN ( /\ n \in 1..3
       /\ patternsOf(decisions) = SubSeq(scenario, 1, n) )
     => /\ actionsOf(decisions) = SubSeq(expected, 1, n)
        /\ n = 3 =>
             /\ decisions[3].options = MultipleOptions
             /\ classification # Null => classification[1].urgency = "high"
             /\ handoffId # Null => handoffs[handoffId[1]].urgency = "high"

(* The scenario has run up to the creation of its handoff request. *)
C9_Witness ==
  /\ patternsOf(decisions) = <<"timeout", "timeout", "selector_not_found">>
  /\ decisions[3].action = "handoff"
  /\ handoffId # Null
  /\ handoffs[handoffId[1]].urgency = "high"

(* C10: when the waiting run has read its handoff request as expired,      *)
(* without a human response, the run does not end as a successful resume,  *)
(* and no continue action is made up on the human's behalf.                *)
C10_ExpiryTreatedAsAbort ==
  ( /\ pc = "done"
    /\ handoffId # Null
    /\ lastPolled = Some("expired")
    /\ handoffs[handoffId[1]].human_response = Null )
  => /\ ~( /\ flowResult[1].result # Null
           /\ flowResult[1].result[1].resumed )
     /\ ~( /\ humanChoice # Null
           /\ humanChoice[1].human_action = "continue" )

(* C11: the wait of a run for its handoff request ends exactly when the    *)
(* request is terminal: a run that has stopped waiting never leaves its    *)
(* request in status waiting, and a run that has read its request as       *)
(* responded or expired is no longer waiting.                              *)
C11_WaitEndsExactlyAtTerminalState ==
  /\ ( /\ pc = "done"
       /\ handoffId # Null
       /\ startTime # Null )
     => handoffs[handoffId[1]].status # "waiting"
  /\ pc = "wait" => lastPolled \notin {Some("responded"), Some("expired")}

(* The actions by which an operator aborts: the abort option the engine    *)
(* offers with its escalations, and the abort of the default options.      *)
AbortActions == {"abort", "abort_task"}

(* C12: a run that ended on the operator's recorded response has not       *)
(* resumed and is reported unsuccessful when the action is an abort, and   *)
(* has resumed when the action is continue or modify_approach.             *)
C12_ResumeOrAbortFollowsResponse ==
  ( /\ pc = "done"
    /\ handoffId # Null
    /\ humanChoice # Null
    /\ ~humanChoice[1].fallback
    /\ handoffs[handoffId[1]].human_response # Null )
  => LET action == handoffs[handoffId[1]].human_response[1].action
         flow == flowResult[1]
     IN /\ action \in AbortActions
             => /\ ~flow.success
                /\ ~( /\ flow.result # Null
                      /\ flow.result[1].resumed )
        /\ action \in {"continue", "modify_approach"}
             => /\ flow.result # Null
                /\ flow.result[1].resumed

---------------------------------------------------------------------------
(* Properties of the handoff sessions and their streaming channel (checked *)
(* under StreamSpec, the temporal ones under StreamFairSpec).              *)

(* The open connections of the operators of session sid. *)
operatorsOf(sid) ==
  {c \in DOMAIN sockets :
     sockets[c].session = sid /\ sockets[c].readyState = "open"}

(* C13: every session has at most one connected operator at every moment: *)
(* a connection to a session that already has one evicts the older one.    *)
C13_AtMostOneOperatorPerSession ==
  \A sid \in DOMAIN sessions : Cardinality(operatorsOf(sid)) <= 1

(* C14: no frame is sent for a session whose operator-connected flag is    *)
(* false, whatever started the capture of the frame.                       *)
C14_NoFrameWithoutOperator ==
  [][\A c \in DOMAIN sockets :
       sockets'[c].frames > sockets[c].frames
         => sessions[sockets[c].session].humanConnected]_vars

(* C15: a session closed by complete_handoff is inactive, and its          *)
(* resolution is eventually announced: an operator of the session receives *)
(* handoff_complete.                                                       *)
C15_CompletionNotifies ==
  \A sid \in 1..MaxSessions :
    ( /\ sid \in DOMAIN sessions
      /\ ~sessions[sid].isActive )
    ~> ( \E c \in DOMAIN sockets :
           /\ sockets[c].session = sid
           /\ "handoff_complete" \in sockets[c].msgs )

(* The session has been completed and a tick has stopped its interval. *)
streamingStopped(sid) ==
  /\ ~sessions[sid].isActive
  /\ clearInterval(sessions[sid].streamInterval) \cap liveIntervals = {}

(* C16: once complete_handoff is processed and the next tick has passed no *)
(* frame is sent for the session; the session leaves the session table     *)
(* after the grace period; connections to a removed session id are refused *)
(* with 'Session not found'.                                               *)
C16_CompletedSessionStopsAndIsRemoved ==
  /\ [][\A c \in DOMAIN sockets :
          sockets'[c].frames > sockets[c].frames
            => ~streamingStopped(sockets[c].session)]_vars
  /\ \A sid \in 1..MaxSessions :
       ( /\ sid \in DOMAIN sessions
         /\ ~sessions[sid].isActive )
       ~> ( /\ sid \in DOMAIN sessions
            /\ ~sessions[sid].inTable )
  /\ [][\A sid \in DOMAIN sessions :
          ( /\ ~sessions[sid].inTable
            /\ connection(sid) )
          => /\ Last(sockets').readyState = "closed"
             /\ Last(sockets').errors = <<SessionNotFound>>
             /\ sessions' = sessions]_vars

(* C17: every session is eventually closed: it does not stay active in the *)
(* session table forever, operator or not.                                 *)
C17_EverySessionEventuallyClosed ==
  \A sid \in 1..MaxSessions :
    (sid \in DOMAIN sessions)
    ~> ( /\ sid \in DOMAIN sessions
         /\ ~( /\ sessions[sid].inTable
               /\ sessions[sid].isActive ) )

(* C18: a disconnection leaves the session without operator, in the table, *)
(* and as active as it was; a later connection to an active session of the *)
(* table is accepted, sets the operator-connected flag, and starts a new    *)
(* live interval whose ticks capture frames, and an initial frame.          *)
C18_DisconnectKeepsSessionOpenForReconnect ==
  /\ [][\A c \in DOMAIN sockets :
          onClose(c)
            => LET sid == sockets[c].session
               IN /\ ~sessions'[sid].humanConnected
                  /\ sessions'[sid].inTable = sessions[sid].inTable
                  /\ sessions'[sid].isActive = sessions[sid].isActive]_vars
  /\ [][\A sid \in DOMAIN sessions :
          ( /\ sessions[sid].inTable
            /\ sessions[sid].isActive
            /\ connection(sid) )
          => LET c == Len(sockets')
             IN /\ sockets'[c].readyState = "open"
                /\ sockets'[c].session = sid
                /\ sessions'[sid].humanConnected
                /\ sessions'[sid].isActive
                /\ sessions'[sid].streamInterval = Some(c)
                /\ c \in liveIntervals'
                /\ ~(tickStops(sessions[sid]))'
                /\ [socket |-> c, kind |-> "initial", n |-> 1]
                     \in captures']_vars

(* An operator has left an active session, a second one has connected to   *)
(* it and has received a frame.                                            *)
C18_Witness ==
  /\ Len(sockets) = 2
  /\ sockets[1].session = 1 /\ sockets[1].readyState = "closed"
  /\ sockets[1].attached
  /\ sockets[2].session = 1 /\ sockets[2].readyState = "open"
  /\ sessions[1].isActive /\ sessions[1].humanConnected
  /\ sockets[2].frames > 0

(* The primitive of the control handle an input event stands for. *)
primitiveOf(type) ==
  IF type = "click" THEN "mouse.click" ELSE "mouse.move"

(* C19: every input event an operator sends makes exactly one call of its  *)
(* primitive, with the event's arguments, issued at once behind the calls  *)
(* of the events that arrived before, settled or not; other messages make  *)
(* no call, and no step drops or reorders issued calls.                    *)
C19_OneCallPerEventInArrivalOrder ==
  /\ [][\A c \in DOMAIN sockets, message \in OperatorMessages :
          onMessage(c, message)
            => IF message.type \in InputTypes
               THEN /\ Len(pageCalls') = Len(pageCalls) + 1
                    /\ Last(pageCalls').call =
                         [fn |-> primitiveOf(message.type),
                          args |-> message.data]
               ELSE Len(pageCalls') = Len(pageCalls)]_vars
  /\ [][/\ Len(pageCalls') >= Len(pageCalls)
        /\ \A i \in DOMAIN pageCalls :
             pageCalls'[i].call = pageCalls[i].call]_vars

(* A click has been forwarded behind a move whose call is still pending. *)
C19_Witness ==
  /\ Len(pageCalls) = 2
  /\ pageCalls[1].call.fn = "mouse.move"
  /\ pageCalls[1].state = "pending"
  /\ pageCalls[2].call = [fn |-> "mouse.click", args |-> <<100, 200>>]

(* The number of error messages the operators have received. *)
errorCount(socks) ==
  LET RECURSIVE sum(_)
      sum(n) == IF n = 0 THEN 0 ELSE sum(n - 1) + Len(socks[n].errors)
  IN sum(Len(socks))

(* C20: when the forwarding of an operator event fails, because the page   *)
(* call rejects or the message is malformed, an error message is sent to   *)
(* an operator, and the session stays as open and active as it was.        *)
C20_ForwardFailureIsReportedToOperator ==
  /\ [][\A i \in DOMAIN pageCalls :
          callDone(i, FALSE)
            => /\ errorCount(sockets') = errorCount(sockets) + 1
               /\ sessions' = sessions]_vars
  /\ [][\A c \in DOMAIN sockets :
          onMessage(c, [type |-> "malformed", data |-> <<>>])
            => /\ Len(sockets'[c].errors) = Len(sockets[c].errors) + 1
               /\ sessions' = sessions]_vars

(* The screenshots the ticks of session sid's streaming have in flight. *)
outstandingOf(sid) ==
  {cap \in captures :
     sockets[cap.socket].session = sid /\ cap.kind = "tick"}

(* C21: frames are never queued: every session has at most one frame       *)
(* capture in flight at any time, a tick that finds the capture of an      *)
(* earlier tick unfinished starts no other.                                *)
C21_AtMostOneFrameOutstanding ==
  \A sid \in DOMAIN sessions : Cardinality(outstandingOf(sid)) <= 1

(* The time to live the urgency table gives, in units of five minutes:     *)
(* urgent 5 minutes, high 15 minutes, normal 30 minutes.                   *)
ttlTable(urgency) ==
  IF urgency = "urgent" THEN 1 ELSE IF urgency = "high" THEN 3 ELSE 6

(* C22: a handoff request created with urgency u expires ttl(u) after its  *)
(* creation, for u in urgent, high, normal.                                *)
C22_ExpiryFollowsUrgencyTable ==
  \A id \in DOMAIN handoffs :
    handoffs[id].expires_at - handoffs[id].created_at
      = ttlTable(handoffs[id].urgency)

(* C23: expiry is applied on every read of the registry: a listing never   *)
(* reports with status waiting a request whose expires_at has passed, so a *)
(* listing filtered by status waiting never contains one, and a single get *)
(* leaves no such request waiting.                                         *)
C23_ReadsApplyExpiry ==
  /\ [][\A status \in StatusFilters, urgency \in UrgencyFilters :
          listHandoffs(status, urgency)
            => \A k \in DOMAIN res'.handoffs :
                 ~( /\ res'.handoffs[k].status = "waiting"
                    /\ now > handoffs[res'.handoffs[k].id].expires_at )]_vars
  /\ [][\A id \in DOMAIN handoffs :
          getHandoff(id)
            => ~( /\ handoffs'[id].status = "waiting"
                  /\ now > handoffs[id].expires_at )]_vars

---------------------------------------------------------------------------
(* Properties of the UnifiedCUAEngine's handoffs (checked under EngineSpec). *)

(* C24: the engine never creates a handoff session for its page while an   *)
(* earlier session of it is still active: at most one active session per   *)
(* escalation, across any sequence of executeTask calls.                   *)
C24_NoNewSessionWhileOneIsActive ==
  [][Len(sessions') > Len(sessions)
       => \A sid \in DOMAIN sessions : ~sessions[sid].isActive]_vars

---------------------------------------------------------------------------
(* Properties of the agent's approval gate (checked under Spec). *)

(* executeFlow has been entered for the current task. *)
flowStarted ==
  \/ pc \in {"attempt", "handoff", "posted", "wait"}
  \/ flowResult # Null

(* An 'approve' response is recorded for an approval handoff. *)
approveRecorded ==
  \E id \in DOMAIN handoffs :
    /\ handoffs[id].options = ApprovalOptions
    /\ handoffs[id].human_response # Null
    /\ handoffs[id].human_response[1].action = "approve"

(* C25: a task that asked for approval is executed by the brain only after *)
(* a human response with action 'approve' has been recorded for its        *)
(* approval handoff; when the approval is not granted, by another action,  *)
(* a timeout or a failure, executeFlow is never entered and the task's     *)
(* result is success = false.                                              *)
C25_ExecutedOnlyAfterApprove ==
  /\ pc = "approval" => ~flowStarted
  /\ ( /\ approval # Null
       /\ flowStarted )
     => approveRecorded
  /\ ( /\ approval # Null
       /\ ~approval[1].approved )
     => /\ ~flowStarted
        /\ pc = "done"
        /\ taskResult = Some([success |-> FALSE,
                              reason |-> "Human approval denied"])

(* An approved task has been executed by the brain. *)
C25_Witness ==
  /\ approval # Null
  /\ approval[1].approved
  /\ pc = "done"
  /\ flowResult # Null

---------------------------------------------------------------------------
(* Properties of the brain's strategies and attempt log (checked under     *)
(* BrainSpec).                                                             *)

(* The records the current run has pushed to a history. *)
runRecords(history) == SelectSeq(history, LAMBDA a : a.timestamp = runs)

modelsOf(history) == {history[k].model : k \in DOMAIN history}

(* C26: the attempt made after the first failed attempt of a run (attempt  *)
(* index 1) uses a model that no earlier attempt of the same run used,     *)
(* whatever the type of the task, as long as the catalog has a model the   *)
(* run has not used.                                                       *)
C26_RetryUsesModelNotUsedBefore ==
  [][( /\ pc = "attempt"
       /\ currentAttempt = 1
       /\ Len(attemptHistory') = Len(attemptHistory) + 1
       /\ \E i \in DOMAIN allModels :
            allModels[i] \notin modelsOf(runRecords(attemptHistory)) )
       => Last(attemptHistory').model
            \notin modelsOf(runRecords(attemptHistory))]_vars

isPrefix(a, b) == Len(a) <= Len(b) /\ SubSeq(b, 1, Len(a)) = a

(* The attempts one step of a run counts: the increase of currentAttempt,  *)
(* and one for the attempt that succeeds (it returns without an increase). *)
countedBy(before, after, succeeds) ==
  IF succeeds THEN 1 ELSE after - before

(* C27: the attempt log is append-only, one record per counted attempt:    *)
(* every step keeps the existing records as they are and in place, and a   *)
(* step of a run appends as many records as it counts attempts, also when  *)
(* the handoff step throws.                                                *)
C27_OneRecordPerCountedAttempt ==
  [][/\ isPrefix(attemptHistory, attemptHistory')
     /\ pc \in {"attempt", "callback"}
          => Len(attemptHistory') - Len(attemptHistory)
               = countedBy(currentAttempt, currentAttempt',
                           /\ pc = "attempt"
                           /\ pc' = "done"
                           /\ currentAttempt' = currentAttempt)]_vars

(* C29: the confidence of a completed attempt, in tenths, is 5, plus 3     *)
(* when the attempt succeeded, plus 2 when its strategy succeeded before   *)
(* for a task of this type, minus 1 only when an earlier attempt of the    *)
(* same run failed with its model, kept within 0..10; a successful first   *)
(* attempt of a fresh run has 8.                                           *)
C29_ConfidenceOfCompletedAttempt ==
  [][( /\ pc = "attempt"
       /\ Len(attemptHistory') = Len(attemptHistory) + 1 )
       => LET record == Last(attemptHistory')
              success == pc' = "done" /\ currentAttempt' = currentAttempt
              strategyBefore ==
                \E i \in DOMAIN successPatterns :
                  /\ successPatterns[i].strategy = record.strategy
                  /\ successPatterns[i].task_type = classifyTaskType(task[1])
              modelFailed ==
                record.model \in modelsOf(runRecords(attemptHistory))
              sum == 5 + (IF success THEN 3 ELSE 0)
                       + (IF strategyBefore THEN 2 ELSE 0)
                       - (IF modelFailed THEN 1 ELSE 0)
          IN confidence' =
               Some(IF sum > 10 THEN 10 ELSE IF sum < 0 THEN 0 ELSE sum)]_vars

---------------------------------------------------------------------------
(* Properties of the engine's decisions and of the waits on a request      *)
(* (checked under Spec).                                                   *)

(* C28: for a failed attempt whose error text matches no known             *)
(* classification the engine decides to escalate, never to retry, the      *)
(* escalation has urgency normal, and the run does not end in a throw.     *)
C28_UnclassifiableFailureEscalatesNormal ==
  /\ \A i \in DOMAIN decisions :
       decisions[i].errorPattern = "unknown_error"
         => /\ decisions[i].action = "handoff"
            /\ classifyHandoff(decisions[i].reason).urgency = "normal"
  /\ ( /\ pc = "done"
       /\ flowResult # Null
       /\ decisions # <<>>
       /\ Last(decisions).errorPattern = "unknown_error" )
     => flowResult[1].success

(* C30: every observer of a request that the operator answered before its  *)
(* expiry reads it as responded, with the recorded response, whenever it   *)
(* polls: no read of such a request, by the waiting run or by any other    *)
(* client, shows another status or another response.                      *)
C30_EveryObserverReadsTheResponse ==
  [][\A id \in DOMAIN handoffs :
       ( /\ handoffs[id].human_response # Null
         /\ handoffs[id].human_response[1].responded_at
              <= handoffs[id].expires_at
         /\ handoffs[id].status = "responded"
         /\ getHandoff(id) )
       => /\ handoffs'[id].status = "responded"
          /\ handoffs'[id].human_response = handoffs[id].human_response]_vars

---------------------------------------------------------------------------
(* Properties of what a task reports and of how a run ends. *)

(* The brain's run ended without success: every attempt failed, the human  *)
(* aborted, or the run is paused for a human.                              *)
runFailed ==
  /\ flowResult # Null
  /\ \/ ~flowResult[1].success
     \/ ~flowResult[1].result[1].success

(* C37: executeProductionTask answers success = true, and leaves the agent *)
(* in state completed, only when the brain's run succeeded; a run that     *)
(* ended with every attempt failed, aborted or paused is answered with     *)
(* success = false (checked under Spec).                                   *)
C37_TaskSuccessMeansRunSucceeded ==
  ( /\ pc = "done"
    /\ runFailed )
  => /\ taskResult # Null
     /\ ~taskResult[1].success
     /\ agentState # "completed"

(* C38: once a run has decided to escalate, it makes no further automated  *)
(* attempt: when the handoff callback throws, the run ends (checked under  *)
(* BrainSpec).                                                             *)
C38_NoAttemptAfterEscalation ==
  [][( /\ decisions # <<>>
       /\ Last(decisions).action = "handoff"
       /\ runs' = runs )
       => /\ attemptHistory' = attemptHistory
          /\ pc' \in {pc, "done"}]_vars

(* C39: a run executes at most maxRetries attempts: every attempt either   *)
(* ends the run, hands over, or increases the attempt counter, and a run   *)
(* whose agent calls and handoff callbacks settle ends (checked under      *)
(* BrainFairSpec).                                                         *)
C39_RunEndsWithinMaxRetries ==
  /\ [](Len(runRecords(attemptHistory)) <= maxRetries)
  /\ [][pc = "attempt"
          => \/ pc' \in {"done", "callback"}
             \/ currentAttempt' > currentAttempt]_vars
  /\ (pc \in {"attempt", "callback"}) ~> (pc = "done")

(* A run that ended after maxRetries failed attempts. *)
C39_Witness ==
  /\ pc = "done"
  /\ Len(runRecords(attemptHistory)) = maxRetries
  /\ flowResult = Some(FlowFailure(MsgExhausted))

---------------------------------------------------------------------------
(* Properties of the operators' connections (checked under StreamSpec, and *)
(* C36 under EngineSpec).                                                  *)

(* C33: while an operator connection to an active session is open, the     *)
(* session is marked connected and its frame interval is running, whatever *)
(* other connections to the session have been closed.                      *)
C33_OpenConnectionKeepsStreaming ==
  \A c \in DOMAIN sockets :
    LET sid == sockets[c].session
    IN ( /\ sockets[c].attached
         /\ sockets[c].readyState = "open"
         /\ sessionFound(sid)
         /\ sessions[sid].isActive )
       => /\ sessions[sid].humanConnected
          /\ sessions[sid].streamInterval # Null
          /\ sessions[sid].streamInterval[1] \in liveIntervals

(* C35: after complete_handoff has been processed for a session, no input  *)
(* event of an operator of that session is forwarded to the page: every    *)
(* page call that is issued belongs to a session that is still active.     *)
C35_NoInputForwardedAfterCompletion ==
  [][\A i \in DOMAIN pageCalls' :
       i \notin DOMAIN pageCalls
         => sessions[pageCalls'[i].session].isActive]_vars

(* C36: the operator of a session is sent nothing when another session is  *)
(* created or completed.                                                   *)
C36_OtherSessionsSendNothing ==
  [][\A c \in DOMAIN sockets :
       ( /\ sockets[c].readyState = "open"
         /\ \/ Len(sessions') > Len(sessions)
            \/ \E other \in DOMAIN sessions :
                 /\ other # sockets[c].session
                 /\ sessions[other].isActive
                 /\ ~sessions'[other].isActive )
       => sockets'[c] = sockets[c]]_vars

---------------------------------------------------------------------------
(* Properties of the UnifiedCUAEngine (checked under EngineSpec). *)

(* C31: whatever init and executeTask calls are made on an engine, also    *)
(* calls that start before an earlier init has finished, the browser is    *)
(* launched at most once, and exactly once when the engine is initialised. *)
C31_BrowserLaunchedOnce ==
  /\ launches <= 1
  /\ isInitialized => launches = 1

(* C32: every executeTask call ends with a returned result, never a throw: *)
(* a failure is returned with success = false and an error message, and    *)
(* the agent's status is not left busy.                                    *)
C32_FailureIsReturnedAsValue ==
  outcome # Null
    => /\ outcome[1].returned
       /\ ~outcome[1].success => outcome[1].error # <<>>
       /\ agentStatus # "busy"

(* C34: while a handoff session for the engine's page is active, the       *)
(* engine itself issues no input call on the page.                         *)
C34_NoAutomationInputDuringHandoff ==
  [][engineInputs' > engineInputs
       => \A sid \in DOMAIN sessions :
            ~(sessionFound(sid) /\ sessions[sid].isActive)]_vars

====
